---- MODULE Spec2Model ----
(***************************************************************************)
(* State-machine model of the two resource managers of the kernel:         *)
(*   kernel/bio.c    - the hash-partitioned buffer cache                   *)
(*   kernel/kalloc.c - the per-CPU physical page allocator                 *)
(* The two components share no state: BioSpec, BioDataSpec and             *)
(* BioMisuseSpec run the buffer cache, KallocSpec and KallocSeqSpec the     *)
(* allocator.                                                               *)
(***************************************************************************)
EXTENDS Integers, Sequences, FiniteSets, TLC

(***************************************************************************)
(* Sizes.  bio.c has BUCKETSIZE 13 and BUFFERSIZE 7; the model keeps the   *)
(* structure (blockno % BUCKETSIZE selects the bucket, BUFFERSIZE slots    *)
(* per bucket) at a size TLC can enumerate.  UINT_MAX stands for           *)
(* 0xffffffff, the largest value of the C type uint of lastuse, ticks and  *)
(* refcnt, and the start value of least in bget (line 76).                 *)
(***************************************************************************)
BUCKETSIZE == 2
BUFFERSIZE == 2
UINT_MAX == 2
\* Pins outstanding at a time, over all callers.
MaxPins == 1

Devs == {0, 1}
\* Payload values of a block.
Data == {0, 1}
Procs == {"p1", "p2"}
NoProc == "none"
Slots == (0 .. BUCKETSIZE - 1) \X (0 .. BUFFERSIZE - 1)
NoSlot == <<-1, -1>>
\* The blocks callers ask for: three of bucket 0 (one more than a bucket holds),
\* among them two that differ in dev only and the zero identity <<0, 0>>.
Blocks == {<<0, 0>>, <<1, 0>>, <<1, 2>>, <<1, 1>>}
\* The blocks callers change.
WBlocks == {<<1, 0>>, <<1, 2>>}

VARIABLES
  buf,        \* bcachebucket[k].buf[i], indexed by <<k, i>>
  bucketlock, \* bcachebucket[k].lock: the holder, or NoProc
  disk,       \* contents of the block device, per <<dev, blockno>>
  pc,         \* where each caller is
  arg,        \* bget's (dev, blockno) arguments of each caller
  bp,         \* the buffer each caller got from bread (its b), or NoSlot
  tgt,        \* the buffer argument of a running bunpin
  pins,       \* the slots each caller has pinned and not yet unpinned
  panicked,   \* panic(): the message and the caller that halted the kernel
  nread,      \* per slot: virtio_disk_rw(b, 0) calls since bget last recycled it
  freelist,   \* kmem[c].freelist: the first free page of pool c, or 0
  kmemlock,   \* kmem[c].lock: the holder, or NoProc
  mem,        \* what the start of each page holds: run.next, or the junk of a memset
  kpc,        \* where each kernel thread is in kinit, kfree, kalloc
  cpu,        \* the local cpu of kfree and kalloc
  r,          \* the local r of kfree and kalloc
  i,          \* the loop index of kalloc's steal loop
  pa,         \* the argument of kfree
  fp,         \* the p of freerange
  oncpu,      \* the processor each thread runs on
  noff,       \* depth of push_off nesting of the processor each thread runs on
  owned,      \* the pages kalloc returned to each thread and it has not freed
  booted,     \* kinit has returned
  emptied     \* history, per thread: every pool was empty at once at some instant
              \* since the kalloc the thread is in was called

bufvars == <<buf, bucketlock, disk, pc, arg, bp, tgt, pins, nread>>
kvars == <<freelist, kmemlock, mem, kpc, cpu, r, i, pa, fp, oncpu, noff, owned, booted, emptied>>
vars == <<bufvars, kvars, panicked>>

NoPanic == [msg |-> "", proc |-> NoProc]

\* struct buf as bio.c uses it: the zero-initialised global array.
ZeroBuf == [dev |-> 0, blockno |-> 0, valid |-> FALSE, refcnt |-> 0,
            lastuse |-> 0, lock |-> NoProc, data |-> 0]

\* Contents of the device before the kernel runs: blocks differ from their neighbours.
DiskInit == [blk \in Blocks |-> (blk[1] + blk[2]) % 2]

\* binit(): every lock free, lastuse = 0, refcnt = 0; dev, blockno, valid are the
\* zeros of the global array.
binit ==
  /\ buf = [s \in Slots |-> ZeroBuf]
  /\ bucketlock = [k \in 0 .. BUCKETSIZE - 1 |-> NoProc]

BioInit ==
  /\ binit
  /\ disk = DiskInit
  /\ pc = [p \in Procs |-> "idle"]
  /\ arg = [p \in Procs |-> <<0, 0>>]
  /\ bp = [p \in Procs |-> NoSlot]
  /\ tgt = [p \in Procs |-> NoSlot]
  /\ pins = [p \in Procs |-> {}]
  /\ nread = [s \in Slots |-> 0]

Running == panicked.msg = ""

\* blockno % BUCKETSIZE
Bucket(blockno) == blockno % BUCKETSIZE

\* refcnt is a uint: x-- on 0 wraps to the largest uint.  (x++ cannot reach
\* the largest uint with the callers of the model.)
UDec(x) == IF x = 0 THEN UINT_MAX ELSE x - 1

\* holdingsleep(&b->lock) evaluated by caller p
holdingsleep(p, s) == buf[s].lock = p

\* The first loop of bget: the first slot of bucket bk whose (dev, blockno) match,
\* scanning from index i; -1 when none matches.
RECURSIVE HitScan(_, _, _, _)
HitScan(bk, dev, blockno, idx) ==
  IF idx = BUFFERSIZE THEN -1
  ELSE IF buf[<<bk, idx>>].dev = dev /\ buf[<<bk, idx>>].blockno = blockno
       THEN idx
       ELSE HitScan(bk, dev, blockno, idx + 1)

\* The second loop of bget, from index idx with the running (least, least_idx).
RECURSIVE LruScan(_, _, _, _)
LruScan(bk, idx, least, least_idx) ==
  IF idx = BUFFERSIZE THEN least_idx
  ELSE IF buf[<<bk, idx>>].refcnt = 0 /\ buf[<<bk, idx>>].lastuse < least
       THEN LruScan(bk, idx + 1, buf[<<bk, idx>>].lastuse, idx)
       ELSE LruScan(bk, idx + 1, least, least_idx)

\* The second loop of bget without the test b->refcnt == 0 of line 80.
RECURSIVE LruScanAnyRef(_, _, _, _)
LruScanAnyRef(bk, idx, least, least_idx) ==
  IF idx = BUFFERSIZE THEN least_idx
  ELSE IF buf[<<bk, idx>>].lastuse < least
       THEN LruScanAnyRef(bk, idx + 1, buf[<<bk, idx>>].lastuse, idx)
       ELSE LruScanAnyRef(bk, idx + 1, least, least_idx)

LruPick_anyref(bk) == LruScanAnyRef(bk, 0, UINT_MAX, -1)

\* uint least = 0xffffffff; int least_idx = -1; for (...) ...
LruPick(bk) == LruScan(bk, 0, UINT_MAX, -1)

\* Where a caller that is not inside an operation stands.
Home(p) == IF bp[p] = NoSlot THEN "idle" ELSE "holding"

\* Pins taken and not yet given back, over all callers.
RECURSIVE SumPins(_)
SumPins(ps) ==
  IF ps = {} THEN 0
  ELSE LET p == CHOOSE q \in ps : TRUE IN Cardinality(pins[p]) + SumPins(ps \ {p})

Pinned == SumPins(Procs)

AtHome(p) == pc[p] \in {"idle", "holding"}

\* bget_acquire that does not wait for the bucket lock.
bget_acquire_nowait(p, dev, blockno) ==
  /\ Running
  /\ UNCHANGED kvars
  /\ pc[p] = "idle"
  /\ bucketlock' = [bucketlock EXCEPT ![Bucket(blockno)] = p]
  /\ arg' = [arg EXCEPT ![p] = <<dev, blockno>>]
  /\ pc' = [pc EXCEPT ![p] = "bget_locked"]
  /\ UNCHANGED <<buf, disk, bp, tgt, pins, panicked, nread>>

\* bread -> bget line 60: acquire(&bcachebucket[blockno%BUCKETSIZE].lock)
bget_acquire(p, dev, blockno) ==
  /\ Running
  /\ UNCHANGED kvars
  /\ pc[p] = "idle"
  /\ bucketlock[Bucket(blockno)] = NoProc
  /\ bucketlock' = [bucketlock EXCEPT ![Bucket(blockno)] = p]
  /\ arg' = [arg EXCEPT ![p] = <<dev, blockno>>]
  /\ pc' = [pc EXCEPT ![p] = "bget_locked"]
  /\ UNCHANGED <<buf, disk, bp, tgt, pins, panicked, nread>>

\* bget_hit without line 69 (acquiresleep(&b->lock)): it returns b at once.
bget_hit_nosleep(p, bk, idx, ticks) ==
  /\ buf' = [buf EXCEPT ![<<bk, idx>>].refcnt = @ + 1,
                        ![<<bk, idx>>].lastuse = ticks]
  /\ bucketlock' = [bucketlock EXCEPT ![bk] = NoProc]
  /\ bp' = [bp EXCEPT ![p] = <<bk, idx>>]
  /\ pc' = [pc EXCEPT ![p] = "bread_valid"]
  /\ UNCHANGED panicked

\* bget lines 63-72: the block is cached in slot <<bk, idx>>.
bget_hit(p, bk, idx, ticks) ==
  /\ buf' = [buf EXCEPT ![<<bk, idx>>].refcnt = @ + 1,
                        ![<<bk, idx>>].lastuse = ticks]
  /\ bucketlock' = [bucketlock EXCEPT ![bk] = NoProc]
  /\ bp' = [bp EXCEPT ![p] = <<bk, idx>>]
  /\ pc' = [pc EXCEPT ![p] = "bget_sleep"]
  /\ UNCHANGED panicked

\* bget lines 85-88: panic("do not have enough free buffer"); the kernel halts
\* with the bucket lock held.
bget_panic(p) ==
  /\ panicked' = [msg |-> "do not have enough free buffer", proc |-> p]
  /\ UNCHANGED <<buf, bucketlock, bp, pc>>

\* bget_recycle without line 109 (b->valid = 0).
bget_recycle_keepvalid(p, bk, idx, dev, blockno, ticks) ==
  /\ buf' = [buf EXCEPT ![<<bk, idx>>].dev = dev,
                        ![<<bk, idx>>].blockno = blockno,
                        ![<<bk, idx>>].lastuse = ticks,
                        ![<<bk, idx>>].refcnt = 1]
  /\ bucketlock' = [bucketlock EXCEPT ![bk] = NoProc]
  /\ bp' = [bp EXCEPT ![p] = <<bk, idx>>]
  /\ pc' = [pc EXCEPT ![p] = "bget_sleep"]
  /\ UNCHANGED panicked

\* bget_recycle without line 111 (release of the bucket lock).
bget_recycle_norelease(p, bk, idx, dev, blockno, ticks) ==
  /\ buf' = [buf EXCEPT ![<<bk, idx>>].dev = dev,
                        ![<<bk, idx>>].blockno = blockno,
                        ![<<bk, idx>>].lastuse = ticks,
                        ![<<bk, idx>>].valid = FALSE,
                        ![<<bk, idx>>].refcnt = 1]
  /\ bp' = [bp EXCEPT ![p] = <<bk, idx>>]
  /\ pc' = [pc EXCEPT ![p] = "bget_sleep"]
  /\ UNCHANGED <<bucketlock, panicked>>

\* bget lines 105-111: recycle slot <<bk, idx>> for (dev, blockno).
bget_recycle(p, bk, idx, dev, blockno, ticks) ==
  /\ buf' = [buf EXCEPT ![<<bk, idx>>].dev = dev,
                        ![<<bk, idx>>].blockno = blockno,
                        ![<<bk, idx>>].lastuse = ticks,
                        ![<<bk, idx>>].valid = FALSE,
                        ![<<bk, idx>>].refcnt = 1]
  /\ bucketlock' = [bucketlock EXCEPT ![bk] = NoProc]
  /\ bp' = [bp EXCEPT ![p] = <<bk, idx>>]
  /\ pc' = [pc EXCEPT ![p] = "bget_sleep"]
  /\ UNCHANGED panicked

\* bget lines 63-72 under the bucket lock: the scan for (dev, blockno).
bget_lookup(p, ticks) ==
  /\ Running
  /\ UNCHANGED kvars
  /\ pc[p] = "bget_locked"
  /\ LET dev == arg[p][1]
         blockno == arg[p][2]
         bk == Bucket(blockno)
         hit == HitScan(bk, dev, blockno, 0)
     IN  IF hit # -1 THEN bget_hit(p, bk, hit, ticks)
         ELSE /\ pc' = [pc EXCEPT ![p] = "bget_miss"]
              /\ UNCHANGED <<buf, bucketlock, bp, panicked>>
  /\ UNCHANGED <<disk, arg, tgt, pins, nread>>

\* bget lines 76-111, still under the bucket lock: the block is not cached.
bget_evict(p, ticks) ==
  /\ Running
  /\ UNCHANGED kvars
  /\ pc[p] = "bget_miss"
  /\ LET dev == arg[p][1]
         blockno == arg[p][2]
         bk == Bucket(blockno)
         least_idx == LruPick(bk)
     IN  IF least_idx = -1 THEN bget_panic(p) /\ UNCHANGED nread
         ELSE /\ bget_recycle(p, bk, least_idx, dev, blockno, ticks)
              /\ nread' = [nread EXCEPT ![<<bk, least_idx>>] = 0]
  /\ UNCHANGED <<disk, arg, tgt, pins>>

\* bget lines 69 and 112: acquiresleep(&b->lock) sleeps until the lock is free.
acquiresleep(p) ==
  /\ Running
  /\ UNCHANGED kvars
  /\ pc[p] = "bget_sleep"
  /\ buf[bp[p]].lock = NoProc
  /\ buf' = [buf EXCEPT ![bp[p]].lock = p]
  /\ pc' = [pc EXCEPT ![p] = "bread_valid"]
  /\ UNCHANGED <<bucketlock, disk, arg, bp, tgt, pins, panicked, nread>>

\* bread without the test of line 124: it reads the device every time.
bread_always(p) ==
  /\ Running
  /\ UNCHANGED kvars
  /\ pc[p] = "bread_valid"
  /\ buf' = [buf EXCEPT ![bp[p]].data = disk[<<buf[bp[p]].dev, buf[bp[p]].blockno>>],
                        ![bp[p]].valid = TRUE]
  /\ nread' = [nread EXCEPT ![bp[p]] = IF @ < 2 THEN @ + 1 ELSE @]
  /\ pc' = [pc EXCEPT ![p] = "holding"]
  /\ arg' = [arg EXCEPT ![p] = <<0, 0>>]
  /\ UNCHANGED <<bucketlock, disk, bp, tgt, pins, panicked>>

\* bread lines 124-128: read the block from the device unless b->valid.
bread_valid(p) ==
  /\ Running
  /\ UNCHANGED kvars
  /\ pc[p] = "bread_valid"
  /\ LET b == bp[p]
         blk == <<buf[b].dev, buf[b].blockno>>
     IN  IF buf[b].valid
         THEN UNCHANGED <<buf, nread>>
         ELSE /\ buf' = [buf EXCEPT ![b].data = disk[blk], ![b].valid = TRUE]
              /\ nread' = [nread EXCEPT ![b] = IF @ < 2 THEN @ + 1 ELSE @]
  /\ pc' = [pc EXCEPT ![p] = "holding"]
  /\ arg' = [arg EXCEPT ![p] = <<0, 0>>]
  /\ UNCHANGED <<bucketlock, disk, bp, tgt, pins, panicked>>

\* The holder of a buffer changes its payload (bio.c line 10: "After changing
\* buffer data, call bwrite").
modify(p, v) ==
  /\ Running
  /\ UNCHANGED kvars
  /\ pc[p] = "holding"
  /\ <<buf[bp[p]].dev, buf[bp[p]].blockno>> \in WBlocks
  /\ buf[bp[p]].data # v
  /\ buf' = [buf EXCEPT ![bp[p]].data = v]
  /\ UNCHANGED <<bucketlock, disk, pc, arg, bp, tgt, pins, panicked, nread>>

\* bwrite without the check of lines 135-136.
bwrite_nocheck(p, b) ==
  /\ Running
  /\ UNCHANGED kvars
  /\ AtHome(p)
  /\ disk' = [disk EXCEPT ![<<buf[b].dev, buf[b].blockno>>] = buf[b].data]
  /\ UNCHANGED <<buf, bucketlock, pc, arg, bp, tgt, pins, nread, panicked>>

\* bwrite(b), lines 133-138.
bwrite(p, b) ==
  /\ Running
  /\ UNCHANGED kvars
  /\ AtHome(p)
  /\ IF ~holdingsleep(p, b)
     THEN /\ panicked' = [msg |-> "bwrite", proc |-> p]
          /\ UNCHANGED disk
     ELSE /\ disk' = [disk EXCEPT ![<<buf[b].dev, buf[b].blockno>>] = buf[b].data]
          /\ UNCHANGED panicked
  /\ UNCHANGED <<buf, bucketlock, pc, arg, bp, tgt, pins, nread>>

\* The payload of b is what the device holds: nothing is left to write.
Clean(b) == buf[b].data = disk[<<buf[b].dev, buf[b].blockno>>]

\* brelse(b), lines 145-148: the holdingsleep check, then acquire of the lock
\* of bucket b->blockno % BUCKETSIZE.  A caller that holds b releases it once
\* it has written its changes.
brelse(p, b) ==
  /\ Running
  /\ UNCHANGED kvars
  /\ AtHome(p)
  /\ IF ~holdingsleep(p, b)
     THEN /\ panicked' = [msg |-> "brelse", proc |-> p]
          /\ UNCHANGED <<bucketlock, pc>>
     ELSE /\ Clean(b)
          /\ bucketlock[Bucket(buf[b].blockno)] = NoProc
          /\ bucketlock' = [bucketlock EXCEPT ![Bucket(buf[b].blockno)] = p]
          /\ pc' = [pc EXCEPT ![p] = "brelse_locked"]
          /\ UNCHANGED panicked
  /\ UNCHANGED <<buf, disk, arg, bp, tgt, pins, nread>>

\* brelse without line 149 (b->refcnt--).
brelse_nodec(p) ==
  /\ Running
  /\ UNCHANGED kvars
  /\ pc[p] = "brelse_locked"
  /\ bucketlock' = [bucketlock EXCEPT ![Bucket(buf[bp[p]].blockno)] = NoProc]
  /\ pc' = [pc EXCEPT ![p] = "brelse_unlocked"]
  /\ UNCHANGED <<buf, disk, arg, bp, tgt, pins, panicked, nread>>

\* brelse that also stamps the buffer as just used.
brelse_dec_touch(p) ==
  /\ Running
  /\ UNCHANGED kvars
  /\ pc[p] = "brelse_locked"
  /\ buf' = [buf EXCEPT ![bp[p]].refcnt = UDec(@), ![bp[p]].lastuse = 1]
  /\ bucketlock' = [bucketlock EXCEPT ![Bucket(buf[bp[p]].blockno)] = NoProc]
  /\ pc' = [pc EXCEPT ![p] = "brelse_unlocked"]
  /\ UNCHANGED <<disk, arg, bp, tgt, pins, panicked, nread>>

\* brelse lines 149-150: b->refcnt--; release of the bucket lock.
brelse_dec(p) ==
  /\ Running
  /\ UNCHANGED kvars
  /\ pc[p] = "brelse_locked"
  /\ buf' = [buf EXCEPT ![bp[p]].refcnt = UDec(@)]
  /\ bucketlock' = [bucketlock EXCEPT ![Bucket(buf[bp[p]].blockno)] = NoProc]
  /\ pc' = [pc EXCEPT ![p] = "brelse_unlocked"]
  /\ UNCHANGED <<disk, arg, bp, tgt, pins, panicked, nread>>

\* brelse line 151: releasesleep(&b->lock); b is not used afterwards.
releasesleep(p) ==
  /\ Running
  /\ UNCHANGED kvars
  /\ pc[p] = "brelse_unlocked"
  /\ buf' = [buf EXCEPT ![bp[p]].lock = NoProc]
  /\ bp' = [bp EXCEPT ![p] = NoSlot]
  /\ pc' = [pc EXCEPT ![p] = "idle"]
  /\ UNCHANGED <<bucketlock, disk, arg, tgt, pins, panicked, nread>>

\* bpin(b) line 156, called by the holder of b.
bpin(p) ==
  /\ Running
  /\ UNCHANGED kvars
  /\ pc[p] = "holding"
  /\ bp[p] \notin pins[p]
  /\ Pinned < MaxPins
  /\ bucketlock[Bucket(buf[bp[p]].blockno)] = NoProc
  /\ bucketlock' = [bucketlock EXCEPT ![Bucket(buf[bp[p]].blockno)] = p]
  /\ pc' = [pc EXCEPT ![p] = "bpin_locked"]
  /\ UNCHANGED <<buf, disk, arg, bp, tgt, pins, panicked, nread>>

\* bpin lines 157-158.
bpin_inc(p) ==
  /\ Running
  /\ UNCHANGED kvars
  /\ pc[p] = "bpin_locked"
  /\ buf' = [buf EXCEPT ![bp[p]].refcnt = @ + 1]
  /\ bucketlock' = [bucketlock EXCEPT ![Bucket(buf[bp[p]].blockno)] = NoProc]
  /\ pins' = [pins EXCEPT ![p] = @ \cup {bp[p]}]
  /\ pc' = [pc EXCEPT ![p] = "holding"]
  /\ UNCHANGED <<disk, arg, bp, tgt, panicked, nread>>

\* bunpin(b) line 163, called on a buffer the caller pinned, with or without
\* holding a buffer lock.
bunpin(p, b) ==
  /\ Running
  /\ UNCHANGED kvars
  /\ AtHome(p)
  /\ b \in pins[p]
  /\ bucketlock[Bucket(buf[b].blockno)] = NoProc
  /\ bucketlock' = [bucketlock EXCEPT ![Bucket(buf[b].blockno)] = p]
  /\ tgt' = [tgt EXCEPT ![p] = b]
  /\ pc' = [pc EXCEPT ![p] = "bunpin_locked"]
  /\ UNCHANGED <<buf, disk, arg, bp, pins, panicked, nread>>

\* bunpin lines 164-165.
bunpin_dec(p) ==
  /\ Running
  /\ UNCHANGED kvars
  /\ pc[p] = "bunpin_locked"
  /\ buf' = [buf EXCEPT ![tgt[p]].refcnt = UDec(@)]
  /\ bucketlock' = [bucketlock EXCEPT ![Bucket(buf[tgt[p]].blockno)] = NoProc]
  /\ pins' = [pins EXCEPT ![p] = @ \ {tgt[p]}]
  /\ tgt' = [tgt EXCEPT ![p] = NoSlot]
  /\ pc' = [pc EXCEPT ![p] = Home(p)]
  /\ UNCHANGED <<disk, arg, bp, panicked, nread>>

(***************************************************************************)
(* kernel/kalloc.c.  Addresses are integers; the page size, the end of the  *)
(* kernel image, the top of physical memory and the number of processors    *)
(* come from the build (4096, end[], PHYSTOP, NCPU 8) and are scaled here:  *)
(* the managed range [end, PHYSTOP) holds the pages 8, 12 and 16.           *)
(***************************************************************************)
NCPU == 3
PGSIZE == 4
end == 5
PHYSTOP == 20
\* What the start of a page reads as after memset(pa, 1, PGSIZE) and
\* memset(r, 5, PGSIZE): no address.
Junk1 == -1
Junk5 == -5

Threads == {"t1", "t2"}
\* The thread that runs kinit.
BootThread == "t1"
CPUs == 0 .. NCPU - 1
Addrs == 0 .. PHYSTOP + PGSIZE

PGROUNDUP(a) == ((a + PGSIZE - 1) \div PGSIZE) * PGSIZE

\* The pages freerange(end, PHYSTOP) hands to kfree.
Pages == {a \in Addrs : a % PGSIZE = 0 /\ a >= PGROUNDUP(end) /\ a + PGSIZE <= PHYSTOP}

\* The state kinit starts from: zeroed globals, on any processor.
KInit ==
  /\ freelist = [c \in CPUs |-> 0]
  /\ kmemlock = [c \in CPUs |-> NoProc]
  /\ mem = [a \in Addrs |-> 0]
  /\ kpc = [t \in Threads |-> IF t = BootThread THEN "kinit" ELSE "idle"]
  /\ cpu = [t \in Threads |-> 0]
  /\ r = [t \in Threads |-> 0]
  /\ i = [t \in Threads |-> 0]
  /\ pa = [t \in Threads |-> 0]
  /\ fp = 0
  /\ oncpu \in [Threads -> CPUs]
  /\ noff = [t \in Threads |-> 0]
  /\ owned = [t \in Threads |-> {}]
  /\ booted = FALSE
  /\ emptied = [t \in Threads |-> FALSE]

\* The allocator's runs start on any processors; the buffer cache's runs keep
\* the allocator at rest, its threads on processor 0.
Init ==
  /\ BioInit
  /\ KInit
  /\ panicked = NoPanic

CacheInit ==
  /\ Init
  /\ oncpu = [t \in Threads |-> 0]

\* The history of the step: for a thread inside kalloc, whether every pool was
\* empty before the call's first step or after any step since.
Track ==
  emptied' = [t \in Threads |->
                IF kpc'[t] \in {"kalloc_cpuid", "kalloc_acquire", "kalloc_head",
                                "kalloc_pop", "kalloc_steal", "kalloc_steal_head",
                                "kalloc_steal_pop", "kalloc_fill"}
                THEN \/ (IF kpc[t] = "idle" THEN \A c \in CPUs : freelist[c] = 0
                         ELSE emptied[t])
                     \/ \A c \in CPUs : freelist'[c] = 0
                ELSE FALSE]

\* Thread t is the one its processor executes: no other thread of that processor
\* is inside a push_off section (interrupts off, so no timer preemption).
CanRun(t) == \A u \in Threads \ {t} : oncpu[u] = oncpu[t] => noff[u] = 0

\* The check of kfree line 64 without its alignment test.
BadPa_noalign(a) == a < end \/ a >= PHYSTOP

\* The condition of kfree line 64.
BadPa(a) == (a % PGSIZE) # 0 \/ a < end \/ a >= PHYSTOP

\* cpuid(): the processor the calling thread runs on.
cpuid(t) == oncpu[t]

\* push_off() / pop_off() of thread t's processor.
push_off(t) == noff' = [noff EXCEPT ![t] = @ + 1]

pop_off(t) == noff' = [noff EXCEPT ![t] = @ - 1]

\* kinit lines 40-43: initlock of every pool, then freerange(end, PHYSTOP) with
\* p = PGROUNDUP(pa_start) (line 50).
kinit(t) ==
  /\ Running
  /\ UNCHANGED bufvars
  /\ kpc[t] = "kinit"
  /\ kmemlock' = [c \in CPUs |-> NoProc]
  /\ fp' = PGROUNDUP(end)
  /\ kpc' = [kpc EXCEPT ![t] = "freerange"]
  /\ UNCHANGED <<freelist, mem, cpu, r, i, pa, oncpu, noff, owned, booted, panicked>>
  /\ Track

\* kfree lines 64-67 on argument a: the check, panic("kfree"), push_off.
kfree_enter(t, a) ==
  IF BadPa(a)
  THEN /\ panicked' = [msg |-> "kfree", proc |-> t]
       /\ UNCHANGED <<pa, noff, kpc>>
  ELSE /\ pa' = [pa EXCEPT ![t] = a]
       /\ push_off(t)
       /\ kpc' = [kpc EXCEPT ![t] = "kfree_cpuid"]
       /\ UNCHANGED panicked

\* freerange lines 51-52: kfree(p) for every whole page below pa_end, then kinit
\* returns and the other processors start.
freerange(t) ==
  /\ Running
  /\ UNCHANGED bufvars
  /\ kpc[t] = "freerange"
  /\ IF fp + PGSIZE <= PHYSTOP
     THEN /\ kfree_enter(t, fp)
          /\ fp' = fp + PGSIZE
          /\ UNCHANGED booted
     ELSE /\ booted' = TRUE
          /\ kpc' = [kpc EXCEPT ![t] = "idle"]
          /\ UNCHANGED <<fp, pa, noff, panicked>>
  /\ UNCHANGED <<freelist, kmemlock, mem, cpu, r, i, oncpu, owned>>
  /\ Track

\* kfree(a) called by a thread: on a page it got from kalloc, or on an address
\* that is no page.
kfree(t, a) ==
  /\ Running
  /\ UNCHANGED bufvars
  /\ booted
  /\ kpc[t] = "idle"
  /\ CanRun(t)
  /\ a \in owned[t] \cup (Addrs \ Pages)
  /\ kfree_enter(t, a)
  /\ owned' = [owned EXCEPT ![t] = IF BadPa(a) THEN @ ELSE @ \ {a}]
  /\ UNCHANGED <<freelist, kmemlock, mem, cpu, r, i, fp, oncpu, booted>>
  /\ Track

\* kfree that frees into pool 0 whichever processor it runs on.
kfree_cpuid_zero(t) ==
  /\ Running
  /\ UNCHANGED bufvars
  /\ kpc[t] = "kfree_cpuid"
  /\ CanRun(t)
  /\ cpu' = [cpu EXCEPT ![t] = 0]
  /\ mem' = [mem EXCEPT ![pa[t]] = Junk1]
  /\ r' = [r EXCEPT ![t] = pa[t]]
  /\ kpc' = [kpc EXCEPT ![t] = "kfree_acquire"]
  /\ UNCHANGED <<freelist, kmemlock, i, pa, fp, oncpu, noff, owned, booted, panicked>>
  /\ Track

\* kfree lines 68-73: cpu = cpuid(); memset(pa, 1, PGSIZE); r = pa.
kfree_cpuid(t) ==
  /\ Running
  /\ UNCHANGED bufvars
  /\ kpc[t] = "kfree_cpuid"
  /\ CanRun(t)
  /\ cpu' = [cpu EXCEPT ![t] = cpuid(t)]
  /\ mem' = [mem EXCEPT ![pa[t]] = Junk1]
  /\ r' = [r EXCEPT ![t] = pa[t]]
  /\ kpc' = [kpc EXCEPT ![t] = "kfree_acquire"]
  /\ UNCHANGED <<freelist, kmemlock, i, pa, fp, oncpu, noff, owned, booted, panicked>>
  /\ Track

\* acquire(&kmem[c].lock) by thread t, continuing at `to`: spins until the lock
\* is free; acquire itself calls push_off.
acquire(t, c, to) ==
  /\ kmemlock[c] = NoProc
  /\ kmemlock' = [kmemlock EXCEPT ![c] = t]
  /\ push_off(t)
  /\ kpc' = [kpc EXCEPT ![t] = to]

\* release(&kmem[c].lock); release calls pop_off.
release(t, c) ==
  /\ kmemlock' = [kmemlock EXCEPT ![c] = NoProc]
  /\ pop_off(t)

\* kfree line 75.
kfree_acquire(t) ==
  /\ Running
  /\ UNCHANGED bufvars
  /\ kpc[t] = "kfree_acquire"
  /\ CanRun(t)
  /\ acquire(t, cpu[t], "kfree_link")
  /\ UNCHANGED <<freelist, mem, cpu, r, i, pa, fp, oncpu, owned, booted, panicked>>
  /\ Track

\* kfree that does not link the page to the pool's list.
kfree_link_nonext(t) ==
  /\ Running
  /\ UNCHANGED bufvars
  /\ kpc[t] = "kfree_link"
  /\ CanRun(t)
  /\ mem' = [mem EXCEPT ![r[t]] = 0]
  /\ kpc' = [kpc EXCEPT ![t] = "kfree_push"]
  /\ UNCHANGED <<freelist, kmemlock, cpu, r, i, pa, fp, oncpu, noff, owned, booted, panicked>>
  /\ Track

\* kfree line 76: r->next = kmem[cpu].freelist.
kfree_link(t) ==
  /\ Running
  /\ UNCHANGED bufvars
  /\ kpc[t] = "kfree_link"
  /\ CanRun(t)
  /\ mem' = [mem EXCEPT ![r[t]] = freelist[cpu[t]]]
  /\ kpc' = [kpc EXCEPT ![t] = "kfree_push"]
  /\ UNCHANGED <<freelist, kmemlock, cpu, r, i, pa, fp, oncpu, noff, owned, booted, panicked>>
  /\ Track

\* kfree lines 77-78: kmem[cpu].freelist = r; release.
kfree_push(t) ==
  /\ Running
  /\ UNCHANGED bufvars
  /\ kpc[t] = "kfree_push"
  /\ CanRun(t)
  /\ freelist' = [freelist EXCEPT ![cpu[t]] = r[t]]
  /\ release(t, cpu[t])
  /\ kpc' = [kpc EXCEPT ![t] = "kfree_pop_off"]
  /\ UNCHANGED <<mem, cpu, r, i, pa, fp, oncpu, owned, booted, panicked>>
  /\ Track

\* kfree line 79: pop_off, and the return to the caller.
kfree_pop_off(t) ==
  /\ Running
  /\ UNCHANGED bufvars
  /\ kpc[t] = "kfree_pop_off"
  /\ CanRun(t)
  /\ pop_off(t)
  /\ cpu' = [cpu EXCEPT ![t] = 0]
  /\ r' = [r EXCEPT ![t] = 0]
  /\ pa' = [pa EXCEPT ![t] = 0]
  /\ kpc' = [kpc EXCEPT ![t] = IF booted THEN "idle" ELSE "freerange"]
  /\ UNCHANGED <<freelist, kmemlock, mem, i, fp, oncpu, owned, booted, panicked>>
  /\ Track

\* kalloc without the push_off of line 89.
kalloc_nopush(t) ==
  /\ Running
  /\ UNCHANGED bufvars
  /\ booted
  /\ kpc[t] = "idle"
  /\ CanRun(t)
  /\ kpc' = [kpc EXCEPT ![t] = "kalloc_cpuid"]
  /\ UNCHANGED <<freelist, kmemlock, mem, cpu, r, i, pa, fp, oncpu, noff, owned, booted, panicked>>
  /\ Track

\* kalloc line 89: push_off.
kalloc(t) ==
  /\ Running
  /\ UNCHANGED bufvars
  /\ booted
  /\ kpc[t] = "idle"
  /\ CanRun(t)
  /\ push_off(t)
  /\ kpc' = [kpc EXCEPT ![t] = "kalloc_cpuid"]
  /\ UNCHANGED <<freelist, kmemlock, mem, cpu, r, i, pa, fp, oncpu, owned, booted, panicked>>
  /\ Track

\* kalloc line 90: cpu = cpuid().
kalloc_cpuid(t) ==
  /\ Running
  /\ UNCHANGED bufvars
  /\ kpc[t] = "kalloc_cpuid"
  /\ CanRun(t)
  /\ cpu' = [cpu EXCEPT ![t] = cpuid(t)]
  /\ kpc' = [kpc EXCEPT ![t] = "kalloc_acquire"]
  /\ UNCHANGED <<freelist, kmemlock, mem, r, i, pa, fp, oncpu, noff, owned, booted, panicked>>
  /\ Track

\* kalloc line 91.
kalloc_acquire(t) ==
  /\ Running
  /\ UNCHANGED bufvars
  /\ kpc[t] = "kalloc_acquire"
  /\ CanRun(t)
  /\ acquire(t, cpu[t], "kalloc_head")
  /\ UNCHANGED <<freelist, mem, cpu, r, i, pa, fp, oncpu, owned, booted, panicked>>
  /\ Track

\* kalloc line 92: r = kmem[cpu].freelist.
kalloc_head(t) ==
  /\ Running
  /\ UNCHANGED bufvars
  /\ kpc[t] = "kalloc_head"
  /\ CanRun(t)
  /\ r' = [r EXCEPT ![t] = freelist[cpu[t]]]
  /\ kpc' = [kpc EXCEPT ![t] = "kalloc_pop"]
  /\ UNCHANGED <<freelist, kmemlock, mem, cpu, i, pa, fp, oncpu, noff, owned, booted, panicked>>
  /\ Track

\* kalloc_pop without line 94 (kmem[cpu].freelist = r->next).
kalloc_pop_keephead(t) ==
  /\ Running
  /\ UNCHANGED bufvars
  /\ kpc[t] = "kalloc_pop"
  /\ CanRun(t)
  /\ release(t, cpu[t])
  /\ i' = [i EXCEPT ![t] = IF r[t] # 0 THEN 0 ELSE 1]
  /\ kpc' = [kpc EXCEPT ![t] = IF r[t] # 0 \/ ~(1 < NCPU) THEN "kalloc_fill"
                                ELSE "kalloc_steal"]
  /\ UNCHANGED <<freelist, mem, cpu, r, pa, fp, oncpu, owned, booted, panicked>>
  /\ Track

\* kalloc_pop without the release of line 95: the own pool stays locked
\* while the thread goes on.
kalloc_pop_keeplock(t) ==
  /\ Running
  /\ UNCHANGED bufvars
  /\ kpc[t] = "kalloc_pop"
  /\ CanRun(t)
  /\ freelist' = IF r[t] # 0 THEN [freelist EXCEPT ![cpu[t]] = mem[r[t]]] ELSE freelist
  /\ i' = [i EXCEPT ![t] = IF r[t] # 0 THEN 0 ELSE 1]
  /\ kpc' = [kpc EXCEPT ![t] = IF r[t] # 0 \/ ~(1 < NCPU) THEN "kalloc_fill"
                                ELSE "kalloc_steal"]
  /\ UNCHANGED <<kmemlock, noff, mem, cpu, r, pa, fp, oncpu, owned, booted, panicked>>
  /\ Track

\* kalloc lines 93-97: if(r) freelist = r->next; release; if(!r) the steal loop
\* starts at i = 1.
kalloc_pop(t) ==
  /\ Running
  /\ UNCHANGED bufvars
  /\ kpc[t] = "kalloc_pop"
  /\ CanRun(t)
  /\ freelist' = IF r[t] # 0 THEN [freelist EXCEPT ![cpu[t]] = mem[r[t]]] ELSE freelist
  /\ release(t, cpu[t])
  /\ i' = [i EXCEPT ![t] = IF r[t] # 0 THEN 0 ELSE 1]
  /\ kpc' = [kpc EXCEPT ![t] = IF r[t] # 0 \/ ~(1 < NCPU) THEN "kalloc_fill"
                                ELSE "kalloc_steal"]
  /\ UNCHANGED <<mem, cpu, r, pa, fp, oncpu, owned, booted, panicked>>
  /\ Track

\* The neighbours visited in the opposite order.
next_cpu_backwards(t) == (cpu[t] + NCPU - i[t]) % NCPU

\* int next_cpu = (cpu + i) % NCPU
next_cpu(t) == (cpu[t] + i[t]) % NCPU

\* kalloc lines 98-99.
kalloc_steal(t) ==
  /\ Running
  /\ UNCHANGED bufvars
  /\ kpc[t] = "kalloc_steal"
  /\ CanRun(t)
  /\ acquire(t, next_cpu(t), "kalloc_steal_head")
  /\ UNCHANGED <<freelist, mem, cpu, r, i, pa, fp, oncpu, owned, booted, panicked>>
  /\ Track

\* kalloc line 100: r = kmem[next_cpu].freelist.
kalloc_steal_head(t) ==
  /\ Running
  /\ UNCHANGED bufvars
  /\ kpc[t] = "kalloc_steal_head"
  /\ CanRun(t)
  /\ r' = [r EXCEPT ![t] = freelist[next_cpu(t)]]
  /\ kpc' = [kpc EXCEPT ![t] = "kalloc_steal_pop"]
  /\ UNCHANGED <<freelist, kmemlock, mem, cpu, i, pa, fp, oncpu, noff, owned, booted, panicked>>
  /\ Track

\* kalloc lines 101-107 and the loop header: if(r) pop; release; if(r) break;
\* i++.
kalloc_steal_pop(t) ==
  /\ Running
  /\ UNCHANGED bufvars
  /\ kpc[t] = "kalloc_steal_pop"
  /\ CanRun(t)
  /\ freelist' = IF r[t] # 0 THEN [freelist EXCEPT ![next_cpu(t)] = mem[r[t]]] ELSE freelist
  /\ release(t, next_cpu(t))
  /\ i' = [i EXCEPT ![t] = IF r[t] # 0 THEN @ ELSE @ + 1]
  /\ kpc' = [kpc EXCEPT ![t] = IF r[t] # 0 \/ ~(i[t] + 1 < NCPU) THEN "kalloc_fill"
                                ELSE "kalloc_steal"]
  /\ UNCHANGED <<mem, cpu, r, pa, fp, oncpu, owned, booted, panicked>>
  /\ Track

\* kalloc that halts when it found no page, as bget does.
kalloc_fill_fatal(t) ==
  /\ Running
  /\ UNCHANGED bufvars
  /\ kpc[t] = "kalloc_fill"
  /\ CanRun(t)
  /\ mem' = IF r[t] # 0 THEN [mem EXCEPT ![r[t]] = Junk5] ELSE mem
  /\ pop_off(t)
  /\ owned' = [owned EXCEPT ![t] = IF r[t] # 0 THEN @ \cup {r[t]} ELSE @]
  /\ panicked' = IF r[t] # 0 THEN panicked ELSE [msg |-> "kalloc", proc |-> t]
  /\ cpu' = [cpu EXCEPT ![t] = 0]
  /\ r' = [r EXCEPT ![t] = 0]
  /\ i' = [i EXCEPT ![t] = 0]
  /\ kpc' = [kpc EXCEPT ![t] = "idle"]
  /\ UNCHANGED <<freelist, kmemlock, pa, fp, oncpu, booted>>
  /\ Track

\* kalloc lines 110-113: if(r) memset(r, 5, PGSIZE); pop_off; return r.
kalloc_fill(t) ==
  /\ Running
  /\ UNCHANGED bufvars
  /\ kpc[t] = "kalloc_fill"
  /\ CanRun(t)
  /\ mem' = IF r[t] # 0 THEN [mem EXCEPT ![r[t]] = Junk5] ELSE mem
  /\ pop_off(t)
  /\ owned' = [owned EXCEPT ![t] = IF r[t] # 0 THEN @ \cup {r[t]} ELSE @]
  /\ cpu' = [cpu EXCEPT ![t] = 0]
  /\ r' = [r EXCEPT ![t] = 0]
  /\ i' = [i EXCEPT ![t] = 0]
  /\ kpc' = [kpc EXCEPT ![t] = "idle"]
  /\ UNCHANGED <<freelist, kmemlock, pa, fp, oncpu, booted, panicked>>
  /\ Track

\* The scheduler moves a thread to another processor; it can only while the
\* thread's processor takes timer interrupts (noff = 0) and after boot.
migrate(t, c) ==
  /\ Running
  /\ UNCHANGED bufvars
  /\ booted
  /\ noff[t] = 0
  /\ c # oncpu[t]
  /\ oncpu' = [oncpu EXCEPT ![t] = c]
  /\ UNCHANGED <<freelist, kmemlock, mem, kpc, cpu, r, i, pa, fp, noff, owned, booted, panicked>>
  /\ Track

\* One step of thread t in the allocator.
KStep(t) ==
  \/ kinit(t)
  \/ freerange(t)
  \/ \E a \in Addrs : kfree(t, a)
  \/ kfree_cpuid(t)
  \/ kfree_acquire(t)
  \/ kfree_link(t)
  \/ kfree_push(t)
  \/ kfree_pop_off(t)
  \/ kalloc(t)
  \/ kalloc_cpuid(t)
  \/ kalloc_acquire(t)
  \/ kalloc_head(t)
  \/ kalloc_pop(t)
  \/ kalloc_steal(t)
  \/ kalloc_steal_head(t)
  \/ kalloc_steal_pop(t)
  \/ kalloc_fill(t)
  \/ \E c \in CPUs : migrate(t, c)

\* The allocator with its threads running concurrently.
KallocNext == \E t \in Threads : KStep(t)

KallocSpec == Init /\ [][KallocNext]_vars

\* The allocator with one call at a time: a thread steps only while every other
\* thread is between calls.
KallocSeqNext == \E t \in Threads : ((\A u \in Threads \ {t} : kpc[u] = "idle") /\ KStep(t))

KallocSeqSpec == Init /\ [][KallocSeqNext]_vars

\* A step of thread t inside kinit, kfree or kalloc: every step but the calls
\* themselves and the scheduler's moves.
InsideStep(t) ==
  \/ kinit(t)
  \/ freerange(t)
  \/ kfree_cpuid(t)
  \/ kfree_acquire(t)
  \/ kfree_link(t)
  \/ kfree_push(t)
  \/ kfree_pop_off(t)
  \/ kalloc_cpuid(t)
  \/ kalloc_acquire(t)
  \/ kalloc_head(t)
  \/ kalloc_pop(t)
  \/ kalloc_steal(t)
  \/ kalloc_steal_head(t)
  \/ kalloc_steal_pop(t)
  \/ kalloc_fill(t)

\* The allocator with each thread staying on its processor.
KallocPinnedNext ==
  \E t \in Threads :
    \/ InsideStep(t)
    \/ \E a \in Addrs : kfree(t, a)
    \/ kalloc(t)

\* The concurrent allocator in which a processor inside a call keeps executing
\* and every acquire of a spin lock that is free again and again succeeds.
KallocFairSpec ==
  Init /\ [][KallocPinnedNext]_vars /\ \A t \in Threads : SF_vars(InsideStep(t))

(***************************************************************************)
(* Callers.  A caller uses one buffer at a time: bread, then any of modify, *)
(* bwrite, bpin, then brelse; bunpin at any time on a buffer it pinned.     *)
(***************************************************************************)
\* The calls and steps that touch only the slots' metadata and locks.
CacheStep(p) ==
  \/ \E blk \in Blocks : bget_acquire(p, blk[1], blk[2])
  \/ acquiresleep(p)
  \/ bread_valid(p)
  \/ (pc[p] = "holding" /\ brelse(p, bp[p]))
  \/ brelse_dec(p)
  \/ releasesleep(p)
  \/ bpin(p)
  \/ bpin_inc(p)
  \/ \E b \in Slots : bunpin(p, b)
  \/ bunpin_dec(p)

\* The holder changes the payload and writes it to the device.
PayloadStep(p) ==
  \/ \E v \in Data : modify(p, v)
  \/ (pc[p] = "holding" /\ bwrite(p, bp[p]))

\* bwrite and brelse called on a buffer whose lock the caller does not hold.
MisuseStep(p) ==
  \/ \E b \in Slots : (~holdingsleep(p, b) /\ bwrite(p, b))
  \/ \E b \in Slots : (~holdingsleep(p, b) /\ brelse(p, b))

\* The cache under a running clock: bget reads any value of ticks.
BioNext ==
  \/ \E p \in Procs : CacheStep(p)
  \/ \E p \in Procs, ticks \in 0 .. UINT_MAX : bget_lookup(p, ticks)
  \/ \E p \in Procs, ticks \in 0 .. UINT_MAX : bget_evict(p, ticks)

BioSpec == CacheInit /\ [][BioNext]_vars

\* The cache and the payload of its buffers, with no timer interrupt during the
\* run (ticks stays 0).
BioDataNext ==
  \/ \E p \in Procs : CacheStep(p)
  \/ \E p \in Procs : bget_lookup(p, 0)
  \/ \E p \in Procs : bget_evict(p, 0)
  \/ \E p \in Procs : PayloadStep(p)

BioDataSpec == CacheInit /\ [][BioDataNext]_vars

\* The cache and its payload with callers that may break the lock-held
\* precondition of bwrite and brelse, ticks at 0.
BioMisuseNext ==
  \/ \E p \in Procs : CacheStep(p)
  \/ \E p \in Procs : bget_lookup(p, 0)
  \/ \E p \in Procs : bget_evict(p, 0)
  \/ \E p \in Procs : MisuseStep(p)
  \/ \E p \in Procs : PayloadStep(p)

BioMisuseSpec == CacheInit /\ [][BioMisuseNext]_vars

(***************************************************************************)
(* Properties of the buffer cache.                                          *)
(***************************************************************************)
\* The (dev, blockno) a slot carries.
Ident(s) == <<buf[s].dev, buf[s].blockno>>

\* A slot bget has handed out: it is referenced, or holds a block's data.
InUse(s) == buf[s].valid \/ buf[s].refcnt > 0

\* C1 as stated: at most one slot of the whole cache carries a given
\* (dev, blockno), in every state from binit on.
C1_UniqueIdentity == \A s, t \in Slots : s # t => Ident(s) # Ident(t)

\* C1, amended: at most one slot that is referenced or valid carries a given
\* (dev, blockno), and it lies in bucket blockno % BUCKETSIZE; every other slot
\* still carries the (0, 0) of the zero-initialised array.
C1_UniqueCachedIdentity ==
  /\ \A s, t \in Slots : (s # t /\ InUse(s) /\ InUse(t)) => Ident(s) # Ident(t)
  /\ \A s \in Slots : InUse(s) => Bucket(buf[s].blockno) = s[1]
  /\ \A s \in Slots : ~InUse(s) => Ident(s) = <<0, 0>>

\* Both slots of a bucket cache blocks, one of them block (0, 0), while a slot
\* never handed out carries (0, 0) too.
C1_Witness ==
  \E s, t, u \in Slots :
    /\ s # t /\ s[1] = t[1] /\ InUse(s) /\ InUse(t)
    /\ Ident(s) = <<0, 0>> /\ Ident(t) # <<0, 0>>
    /\ ~InUse(u) /\ Ident(u) = <<0, 0>>

\* Caller p is past acquiresleep and before releasesleep of buffer bp[p].
Owner(p) ==
  \/ pc[p] \in {"bread_valid", "holding", "brelse_locked", "brelse_unlocked", "bpin_locked"}
  \/ (pc[p] = "bunpin_locked" /\ bp[p] # NoSlot)

\* C2: bget returns a buffer that carries the (dev, blockno) asked for, with
\* its sleep lock held by the caller, and no two callers are between
\* acquiresleep and releasesleep of the same buffer.
C2_ExclusiveAccess ==
  /\ \A p \in Procs : pc[p] = "bread_valid" => Ident(bp[p]) = arg[p]
  /\ \A p \in Procs : Owner(p) => buf[bp[p]].lock = p
  /\ \A p, q \in Procs : (p # q /\ Owner(p) /\ Owner(q)) => bp[p] # bp[q]

\* A slot was recycled by q while p, its previous holder, is between the
\* refcnt-- and the releasesleep of brelse.
C2_Witness ==
  \E p, q \in Procs :
    /\ p # q /\ pc[p] = "brelse_unlocked" /\ pc[q] = "bget_sleep"
    /\ bp[p] = bp[q] /\ buf[bp[q]].lock = p
    /\ ~buf[bp[q]].valid /\ buf[bp[q]].refcnt = 1 /\ Ident(bp[q]) = arg[q]

\* Every slot of bucket bk is referenced.
AllHeld(bk) == \A idx \in 0 .. BUFFERSIZE - 1 : buf[<<bk, idx>>].refcnt > 0

\* Caller p takes the step of bget lines 76-111.
Evicts(p) ==
  /\ pc[p] = "bget_miss"
  /\ pc'[p] = "bget_sleep" \/ panicked'.proc = p

\* C3: a bget that misses panics if and only if every slot of the bucket has
\* refcnt > 0; otherwise it recycles a slot of that bucket whose refcnt is 0.
C3_PanicIffAllHeld ==
  [][\A p \in Procs : Evicts(p) =>
       LET bk == Bucket(arg[p][2])
       IN  /\ (panicked'.proc = p) <=> AllHeld(bk)
           /\ pc'[p] = "bget_sleep" => (bp'[p][1] = bk /\ buf[bp'[p]].refcnt = 0)]_vars

\* C3, what the code does instead: a bget that misses panics if and only if no
\* slot of the bucket has refcnt 0 and lastuse below 0xffffffff, the start value
\* of least (line 76); otherwise it recycles a slot of that bucket with refcnt 0.
C3_PanicIffNoneBelowSentinel ==
  [][\A p \in Procs : Evicts(p) =>
       LET bk == Bucket(arg[p][2])
       IN  /\ (panicked'.proc = p) <=>
                 \A idx \in 0 .. BUFFERSIZE - 1 :
                   buf[<<bk, idx>>].refcnt > 0 \/ buf[<<bk, idx>>].lastuse = UINT_MAX
           /\ pc'[p] = "bget_sleep" => (bp'[p][1] = bk /\ buf[bp'[p]].refcnt = 0)]_vars

\* The unreferenced slots of bucket bk.
FreeIdx(bk) == {idx \in 0 .. BUFFERSIZE - 1 : buf[<<bk, idx>>].refcnt = 0}

\* The unreferenced slot of bk with the smallest lastuse, the lowest index
\* among those tied.
LruMin(bk) ==
  CHOOSE idx \in FreeIdx(bk) :
    \A j \in FreeIdx(bk) :
      \/ buf[<<bk, idx>>].lastuse < buf[<<bk, j>>].lastuse
      \/ (buf[<<bk, idx>>].lastuse = buf[<<bk, j>>].lastuse /\ idx <= j)

\* C4: a bget that misses in a bucket with an unreferenced slot recycles the
\* unreferenced slot with the smallest lastuse, the lowest index among ties.
C4_RecyclesLruMin ==
  [][\A p \in Procs : (Evicts(p) /\ FreeIdx(Bucket(arg[p][2])) # {}) =>
       LET bk == Bucket(arg[p][2])
       IN  pc'[p] = "bget_sleep" /\ bp'[p] = <<bk, LruMin(bk)>>]_vars

\* C4, what the code does: whenever a bget that misses recycles a slot, it is
\* the unreferenced slot with the smallest lastuse, the lowest index among ties.
C4_RecycledIsLruMin ==
  [][\A p \in Procs : (Evicts(p) /\ pc'[p] = "bget_sleep") =>
       bp'[p] = <<Bucket(arg[p][2]), LruMin(Bucket(arg[p][2]))>>]_vars

\* Caller p has taken a reference to slot s in bget and not yet dropped it in
\* brelse.
Acquired(p, s) == bp[p] = s /\ pc[p] # "brelse_unlocked"

\* C5: with every brelse matched by a bget and every bunpin by a bpin, refcnt
\* of a slot is the number of callers that acquired it plus the number of pins
\* on it (so it never goes below zero).
C5_RefcntCountsHolders ==
  \A s \in Slots :
    buf[s].refcnt = Cardinality({p \in Procs : Acquired(p, s)})
                    + Cardinality({p \in Procs : s \in pins[p]})

\* A slot referenced three times: held by one caller, awaited by the other,
\* and pinned.
C5_Witness ==
  \E s \in Slots : buf[s].refcnt = 3 /\ \E p \in Procs : s \in pins[p]

\* What a bread of blk returns: the payload of the valid slot caching it, else
\* what the device holds.
Cur(blk) ==
  IF \E s \in Slots : buf[s].valid /\ Ident(s) = blk
  THEN buf[CHOOSE s \in Slots : buf[s].valid /\ Ident(s) = blk].data
  ELSE disk[blk]

\* A caller changes the payload of the buffer it holds.
Modifies == \E p \in Procs : pc[p] = "holding" /\ pc'[p] = "holding"
                             /\ buf'[bp[p]].data # buf[bp[p]].data

RECURSIVE ListFrom(_, _)
ListFrom(head, n) ==
  IF head = 0 \/ n = 0 THEN <<>>
  ELSE IF head \notin Addrs THEN <<head>>
  ELSE <<head>> \o ListFrom(mem[head], n - 1)

\* The pages of processor c's pool, head first.
Pool(c) == ListFrom(freelist[c], Cardinality(Pages) + 1)

\* Thread t is inside kfree with its page not yet on a free list.
KfreePcs == {"kfree_cpuid", "kfree_acquire", "kfree_link", "kfree_push"}

\* Thread t is inside kalloc.
KallocPcs == {"kalloc_cpuid", "kalloc_acquire", "kalloc_head", "kalloc_pop",
              "kalloc_steal", "kalloc_steal_head", "kalloc_steal_pop", "kalloc_fill"}

\* kalloc of thread t has taken a page off a free list and is about to return it.
Returning(t) == kpc[t] = "kalloc_fill" /\ r[t] # 0

\* In how many places page a is: allocated to a thread, about to be returned by
\* a kalloc, handed to a kfree that has not pushed it, or on a free list.
Places(a) ==
  Cardinality({t \in Threads : a \in owned[t]})
  + Cardinality({t \in Threads : Returning(t) /\ r[t] = a})
  + Cardinality({t \in Threads : kpc[t] \in KfreePcs /\ pa[t] = a})
  + Cardinality({ck \in CPUs \X (1 .. Cardinality(Pages) + 1) :
                   ck[2] \in DOMAIN Pool(ck[1]) /\ Pool(ck[1])[ck[2]] = a})

\* C7: with kfree called only on pages the caller was allocated, no page is
\* allocated to two callers, or allocated and on a free list, or twice on the
\* free lists: a page kalloc returns is in no other place.
C7_NoDoubleAllocation == \A a \in Pages : Places(a) <= 1

\* A page that was allocated and freed is being returned by a kalloc of the
\* other thread, which stole it, while that thread holds another page.
C7_Witness ==
  \E t, u \in Threads :
    /\ t # u /\ Returning(t) /\ i[t] > 0 /\ mem[r[t]] # 0
    /\ owned[t] # {} /\ kpc[u] \in KfreePcs

\* Address a is page-aligned and in [end, PHYSTOP).
InRange(a) == a % PGSIZE = 0 /\ a >= end /\ a < PHYSTOP

\* C8: every page kalloc returns is page-aligned and within [end, PHYSTOP);
\* kfree goes on only with such an address, and for any other it panics with
\* every free list and all page contents as they were.
C8_PageBounds ==
  /\ [](\A t \in Threads :
          /\ \A a \in owned[t] : InRange(a)
          /\ Returning(t) => InRange(r[t])
          /\ kpc[t] \in KfreePcs \cup {"kfree_pop_off"} => InRange(pa[t]))
  /\ [][(panicked.msg = "" /\ panicked'.msg = "kfree") =>
          (freelist' = freelist /\ mem' = mem /\ kmemlock' = kmemlock)]_vars

\* kfree has panicked on an address while a page is allocated and another is on
\* a free list.
C8_Witness ==
  /\ panicked.msg = "kfree"
  /\ \E t \in Threads : owned[t] # {}
  /\ \E c \in CPUs : freelist[c] # 0

\* C9: kalloc on processor c takes the head of the first non-empty pool in the
\* order c, (c+1) % NCPU, ..., (c+NCPU-1) % NCPU; that pool loses exactly that
\* page and every other pool stays as it was; it returns 0 only if every pool
\* is empty.
C9_StealingOrder ==
  /\ [](\A t \in Threads : kpc[t] = "kalloc_fill" =>
          /\ cpu[t] = oncpu[t]
          /\ r[t] # 0 => /\ i[t] < NCPU
                         /\ \A j \in 0 .. i[t] - 1 : freelist[(cpu[t] + j) % NCPU] = 0
          /\ r[t] = 0 => \A c \in CPUs : freelist[c] = 0)
  /\ [][\A t \in Threads : kpc[t] \in KallocPcs =>
          LET from == (cpu[t] + i[t]) % NCPU
          IN  IF kpc[t] \in {"kalloc_pop", "kalloc_steal_pop"} /\ r[t] # 0
              THEN /\ Pool(from) = <<r[t]>> \o Pool(from)'
                   /\ \A d \in CPUs \ {from} : Pool(d)' = Pool(d)
                   /\ kpc'[t] = "kalloc_fill" /\ r'[t] = r[t] /\ i'[t] = i[t]
              ELSE \A d \in CPUs : Pool(d)' = Pool(d)]_vars

\* Pool 0 held two pages, the others none; a kalloc on processor 1 passed the
\* empty pool 2, took the head of pool 0 and left one page there.
C9_Witness ==
  \E t \in Threads :
    /\ Returning(t) /\ cpu[t] = 1 /\ i[t] = 2
    /\ Len(Pool(0)) = 1 /\ Pool(1) = <<>> /\ Pool(2) = <<>>

\* Every pool is empty.
AllEmpty == \A c \in CPUs : freelist[c] = 0

\* C10: a kalloc that runs while every pool is empty visits all NCPU pools,
\* changes none of them, does not panic and returns 0 with nothing allocated;
\* no step of kalloc panics or blocks, and a kalloc that succeeds returns a
\* page that no thread holds.
C10_ExhaustionReturnsNull ==
  /\ [](\A t \in Threads :
          /\ (kpc[t] = "kalloc_fill" /\ r[t] = 0) => (AllEmpty /\ i[t] = NCPU)
          /\ kpc[t] \in KallocPcs => ENABLED KStep(t))
  /\ [][\A t \in Threads :
          /\ (kpc[t] \in KallocPcs \ {"kalloc_fill"} /\ AllEmpty) =>
               (r[t] = 0 /\ r'[t] = 0 /\ freelist' = freelist /\ kpc'[t] # kpc[t])
          /\ kpc[t] \in KallocPcs => panicked' = panicked
          /\ (kpc[t] = "kalloc_fill" /\ r[t] = 0) =>
               (owned' = owned /\ freelist' = freelist /\ mem' = mem /\ kpc'[t] = "idle")
          /\ Returning(t) =>
               (r[t] \notin UNION {owned[u] : u \in Threads}
                /\ owned'[t] = owned[t] \cup {r[t]})]_vars

\* Three kallocs of one thread on processor 0 returned three distinct pages of
\* pool 0, and its fourth finds every pool empty and is about to return 0.
C10_Witness ==
  \E t \in Threads :
    /\ kpc[t] = "kalloc_fill" /\ r[t] = 0 /\ cpu[t] = 0
    /\ Cardinality(owned[t]) = 3 /\ AllEmpty

\* C11: no step overwrites the (dev, blockno) or clears the valid flag of a
\* slot whose refcnt is greater than 0; so the buffer a caller got from bget
\* keeps its identity until the caller's brelse, and a pinned buffer until its
\* bunpin.
C11_NoEvictionWhileHeld ==
  [][/\ \A s \in Slots : buf[s].refcnt > 0 =>
          /\ Ident(s)' = Ident(s)
          /\ buf[s].valid => buf'[s].valid
     /\ \A p \in Procs, s \in Slots :
          (Acquired(p, s) \/ s \in pins[p]) => buf[s].refcnt > 0]_vars

\* A bget that missed has recycled a slot of a bucket and passed over the
\* bucket's slot 0, which is held by the other caller although its lastuse is
\* the smallest.
C11_Witness ==
  \E p, q \in Procs :
    /\ pc[p] = "bget_sleep" /\ ~buf[bp[p]].valid /\ buf[bp[p]].lock = NoProc
    /\ pc[q] = "holding" /\ bp[q][1] = bp[p][1] /\ bp[q][2] = 0 /\ bp[p][2] = 1
    /\ buf[bp[q]].lastuse = 0 /\ buf[bp[p]].lastuse > 0

\* Caller p holds the spin lock of some bucket.
HoldsBucketLock(p) == \E bk \in 0 .. BUCKETSIZE - 1 : bucketlock[bk] = p

\* C12: a caller that waits in acquiresleep, or is about to call the device
\* (the read of bread, the write of bwrite), holds no bucket spin lock; a
\* bucket lock is held only inside bget's scan and around the refcnt updates
\* of brelse, bpin and bunpin, one at a time.
C12_LockDiscipline ==
  \A p \in Procs :
    /\ pc[p] \in {"bget_sleep", "bread_valid", "holding", "idle",
                  "brelse_unlocked"} => ~HoldsBucketLock(p)
    /\ HoldsBucketLock(p) =>
         pc[p] \in {"bget_locked", "bget_miss", "brelse_locked", "bpin_locked",
                    "bunpin_locked"}
    /\ Cardinality({bk \in 0 .. BUCKETSIZE - 1 : bucketlock[bk] = p}) <= 1

\* A caller sleeps in acquiresleep, holding no bucket lock, on a buffer whose
\* holder is inside brelse with the bucket lock.
C12_Witness ==
  \E p, q \in Procs :
    /\ pc[p] = "bget_sleep" /\ buf[bp[p]].lock = q /\ ~HoldsBucketLock(p)
    /\ pc[q] = "brelse_locked" /\ bucketlock[bp[p][1]] = q

\* C13: a bwrite or brelse called by a caller that does not hold the buffer's
\* sleep lock can only end in panic("bwrite") or panic("brelse"); the panic
\* step writes nothing to the device and changes no refcnt, lock or other
\* field of any slot, and nothing runs after it.
C13_LockHeldPrecondition ==
  /\ [](\A p \in Procs, b \in Slots :
          (Running /\ AtHome(p) /\ ~holdingsleep(p, b)) =>
            /\ ENABLED (bwrite(p, b) /\ panicked'.msg = "bwrite")
            /\ ~ENABLED (bwrite(p, b) /\ panicked' = panicked)
            /\ ENABLED (brelse(p, b) /\ panicked'.msg = "brelse")
            /\ ~ENABLED (brelse(p, b) /\ panicked' = panicked))
  /\ [](~Running => ~ENABLED BioMisuseNext)
  /\ [][(Running /\ panicked'.msg \in {"bwrite", "brelse"}) =>
          (buf' = buf /\ disk' = disk /\ bucketlock' = bucketlock
           /\ pc' = pc /\ bp' = bp /\ pins' = pins)]_vars

\* brelse has panicked for a caller that called it on a buffer another caller
\* holds, changed and has not written; the buffer is still held, referenced
\* once and unwritten.
C13_Witness ==
  \E q \in Procs, s \in Slots :
    /\ panicked.msg = "brelse" /\ panicked.proc # q
    /\ pc[q] = "holding" /\ bp[q] = s /\ buf[s].lock = q
    /\ buf[s].refcnt = 1 /\ ~Clean(s)

\* The step changes refcnt of slot s by d and nothing else of any slot.
OnlyRefcnt(s, d) == buf' = [buf EXCEPT ![s].refcnt = buf[s].refcnt + d]

PoolSet(c) == {Pool(c)[k] : k \in DOMAIN Pool(c)}

\* C15: kfree running on processor c inserts its page at the head of pool c,
\* holding pool c's lock, and no step of kfree changes any other pool; when
\* kinit, run on processor c0, is done, pool c0 holds every page-aligned page
\* of [end, PHYSTOP) exactly once and every other pool is empty.
C15_PoolSelection ==
  [][/\ \A t \in Threads :
          /\ (kpc[t] = "kfree_push" /\ kpc'[t] # kpc[t]) =>
               /\ cpu[t] = oncpu[t] /\ kmemlock[cpu[t]] = t /\ r[t] = pa[t]
               /\ Pool(cpu[t])' = <<pa[t]>> \o Pool(cpu[t])
               /\ \A d \in CPUs \ {cpu[t]} : Pool(d)' = Pool(d)
          /\ (kpc[t] \in (KfreePcs \cup {"kfree_pop_off"}) \ {"kfree_push"}
              /\ kpc'[t] # kpc[t]) =>
               \A d \in CPUs : Pool(d)' = Pool(d)
          /\ (kpc[t] \in {"idle", "freerange"} /\ kpc'[t] = "kfree_cpuid") =>
               \A d \in CPUs : Pool(d)' = Pool(d)
     /\ (~booted /\ booted') =>
          LET c0 == oncpu[BootThread]
          IN  /\ PoolSet(c0)' = {a \in Addrs : InRange(a)}
              /\ Len(Pool(c0)') = Cardinality({a \in Addrs : InRange(a)})
              /\ \A d \in CPUs \ {c0} : Pool(d)' = <<>>]_vars

\* After boot on another processor, a kfree on processor 1 has pushed its page
\* in front of the page pool 1 already held; kinit's pool still holds a page.
C15_Witness ==
  \E t \in Threads :
    /\ booted /\ kpc[t] = "kfree_pop_off" /\ oncpu[t] = 1 /\ oncpu[BootThread] # 1
    /\ Len(Pool(1)) = 2 /\ Pool(1)[1] = pa[t]
    /\ \E d \in CPUs \ {1} : Pool(d) # <<>>

\* Thread t is inside kfree or kalloc, past the push_off at its start.
InCall(t) == kpc[t] \in KfreePcs \cup {"kfree_pop_off"} \cup KallocPcs

\* Thread t holds a pool lock.
LockPcs == {"kfree_link", "kfree_push", "kalloc_head", "kalloc_pop",
            "kalloc_steal_head", "kalloc_steal_pop"}

\* C16: kfree and kalloc read cpuid() with preemption off and keep it off up
\* to their pop_off, after the last change of a free list, so the pool they
\* use as their own is the pool of the processor they run on; the push_off
\* depth is 1 inside a call (2 with a pool lock held) and back at 0 on return.
C16_PreemptionDiscipline ==
  \A t \in Threads :
    /\ ~InCall(t) => noff[t] = 0
    /\ InCall(t) => noff[t] = (IF kpc[t] \in LockPcs THEN 2 ELSE 1)
    /\ (InCall(t) /\ kpc[t] \notin {"kfree_cpuid", "kalloc_cpuid"}) =>
         cpu[t] = oncpu[t]
    /\ kpc[t] \in {"kfree_link", "kfree_push", "kalloc_head", "kalloc_pop"} =>
         kmemlock[oncpu[t]] = t

\* Both threads are inside a call with a pool lock held, on different
\* processors: one pops the head of its own pool, the other pushes a page.
C16_Witness ==
  \E t, u \in Threads :
    /\ kpc[t] = "kalloc_pop" /\ r[t] # 0 /\ kpc[u] = "kfree_push"
    /\ oncpu[t] # oncpu[u] /\ noff[t] = 2 /\ noff[u] = 2
    /\ owned[t] # {} /\ cpu[u] = oncpu[u]

\* C17: a kalloc returns 0 only if every pool was empty at once at some
\* instant between its call and its return.
C17_NullOnlyIfAllEmptyAtOnce ==
  [][\A t \in Threads :
       (kpc[t] = "kalloc_fill" /\ kpc'[t] = "idle" /\ r[t] = 0) => emptied[t]]_vars

\* C17, what the code guarantees: a kalloc finds 0 in a pool only while that
\* pool is empty and locked by it, and it returns 0 only after it has found
\* each of the NCPU pools empty in turn, one at a time.
C17_NullOnlyAfterEachPoolEmpty ==
  \A t \in Threads :
    /\ (kpc[t] \in {"kalloc_pop", "kalloc_steal_pop"} /\ r[t] = 0) =>
         (freelist[(cpu[t] + i[t]) % NCPU] = 0 /\ kmemlock[(cpu[t] + i[t]) % NCPU] = t)
    /\ (kpc[t] = "kalloc_fill" /\ r[t] = 0) => i[t] = NCPU

\* Caller p is inside bread, past bget's choice of a slot, or holds the buffer
\* bread returned.
HasBuf(p) == pc[p] \in {"bget_sleep", "bread_valid", "holding"}

\* C18: callers that bread the same (dev, blockno) at the same time get the
\* same slot; since a slot was last recycled the device was read into it at
\* most once, exactly once if it is valid; a caller that bread has returned to
\* holds a valid buffer.
C18_SingleDeviceRead ==
  /\ \A p, q \in Procs :
       (HasBuf(p) /\ HasBuf(q) /\ Ident(bp[p]) = Ident(bp[q])) => bp[p] = bp[q]
  /\ \A p \in Procs : pc[p] \in {"bget_sleep", "bread_valid"} => Ident(bp[p]) = arg[p]
  /\ \A s \in Slots : nread[s] = (IF buf[s].valid THEN 1 ELSE 0)
  /\ \A p \in Procs : pc[p] = "holding" => buf[bp[p]].valid

\* Both callers bread the same block, not cached before: one has read it from
\* the device and holds it, the other waits for the sleep lock of the same
\* slot.
C18_Witness ==
  \E p, q \in Procs :
    /\ p # q /\ pc[p] = "holding" /\ pc[q] = "bget_sleep" /\ bp[q] = bp[p]
    /\ buf[bp[p]].lock = p /\ buf[bp[p]].refcnt = 2 /\ nread[bp[p]] = 1
    /\ Ident(bp[p]) = arg[q] /\ Ident(bp[p]) # <<0, 0>>

\* The pool locks thread t holds.
LocksOf(t) == {c \in CPUs : kmemlock[c] = t}

\* C19: a thread holds at most one pool lock, and only between an acquire and
\* the release that follows it; kalloc acquires the own pool's lock once and
\* then the locks of the pools (cpu + i) % NCPU for increasing i in
\* 1 .. NCPU - 1, at most NCPU acquisitions; some step is always possible
\* while a call is running, and every call of kfree and kalloc returns.
C19_AllocatorDeadlockFree ==
  /\ [](\A t \in Threads :
          /\ Cardinality(LocksOf(t)) = (IF kpc[t] \in LockPcs THEN 1 ELSE 0)
          /\ kpc[t] \in {"kalloc_steal", "kalloc_steal_head", "kalloc_steal_pop"} =>
               i[t] \in 1 .. NCPU - 1
          /\ kpc[t] \in {"kalloc_cpuid", "kalloc_acquire", "kalloc_head", "kalloc_pop"} =>
               i[t] = 0)
  /\ []((Running /\ \E t \in Threads : InCall(t)) => ENABLED KallocPinnedNext)
  /\ [][\A t \in Threads :
          (kpc[t] = "kalloc_steal_pop" /\ kpc'[t] = "kalloc_steal") =>
            i'[t] = i[t] + 1]_vars
  /\ \A t \in Threads : InCall(t) ~> (~InCall(t) \/ ~Running)

\* The two threads steal from one another: each found its own pool empty and
\* holds the lock of the other's pool.
C19_Witness ==
  \E t, u \in Threads :
    /\ t # u /\ kpc[t] = "kalloc_steal_head" /\ kpc[u] = "kalloc_steal_head"
    /\ (cpu[t] + i[t]) % NCPU = cpu[u] /\ (cpu[u] + i[u]) % NCPU = cpu[t]
    /\ kmemlock[cpu[u]] = t /\ kmemlock[cpu[t]] = u

\* The pages that are allocated: returned by a kalloc and not freed, popped
\* inside a kalloc, or handed to a kfree that has not pushed them yet.
Allocated ==
  {a \in Pages : \E t \in Threads : \/ a \in owned[t]
                                     \/ (Returning(t) /\ r[t] = a)
                                     \/ (kpc[t] \in KfreePcs /\ pa[t] = a)}

\* The entries of the free lists, as <<pool, position>>.
FreeEntries == {ck \in CPUs \X (1 .. Cardinality(Pages) + 1) : ck[2] \in DOMAIN Pool(ck[1])}

\* C20: after kinit, with kfree called only on allocated pages, every managed
\* page is in exactly one place (once on one pool's free list, or allocated);
\* the free lists hold managed pages only, are acyclic and pairwise disjoint;
\* and the number of free plus allocated pages is the number of managed pages.
C20_NoPageLost ==
  booted =>
    /\ \A a \in Pages : Places(a) = 1
    /\ \A c \in CPUs : /\ PoolSet(c) \subseteq Pages
                        /\ Len(Pool(c)) = Cardinality(PoolSet(c))
    /\ \A c, d \in CPUs : c # d => PoolSet(c) \cap PoolSet(d) = {}
    /\ Cardinality(FreeEntries) + Cardinality(Allocated) = Cardinality(Pages)

\* After kinit the three kinds of place are occupied at once: one thread's
\* kalloc has popped a page, the other's kfree is about to push one, and a
\* third page is on a free list.
C20_Witness ==
  /\ booted
  /\ \E t, u \in Threads :
       /\ t # u /\ Returning(t) /\ kpc[u] = "kfree_push" /\ r[t] # pa[u]
  /\ Cardinality(FreeEntries) = 1

====
